---- MODULE Spec2Model ----
(***************************************************************************)
(* Acquisition pipeline of the bundestag repository.                       *)
(*                                                                         *)
(* Sheet track (nbs/00_html_parsing.ipynb): download_sheet,                *)
(* download_multiple_sheets, get_sheet_df.                                 *)
(* API track (nbs/03_abgeordnetenwatch_data.ipynb): the notebook only      *)
(* calls bundestag.data.download.abgeordnetenwatch and                     *)
(* bundestag.data.transform.abgeordnetenwatch; their bodies are modelled   *)
(* from the design document.                                               *)
(***************************************************************************)
EXTENDS Integers, Sequences, FiniteSets, TLC

\* ------------------------------------------------------------------------
\* Bounds
\* ------------------------------------------------------------------------
MaxUris == 3

MaxCap == 2

MaxPolls == 3

MaxEntries == 3

MaxRows == 2

MaxTitleLen == 4

MaxSqRows == 3

MaxFiles == 2

MaxPageEntries == 2

MaxPartyRows == 2

\* ------------------------------------------------------------------------
\* Values
\* ------------------------------------------------------------------------
\* Python's None (also: "no value" for an optional argument)
None == <<>>

\* A uri is the sequence of its '/'-separated segments.
URIS == { <<"a", "f1.xlsx">>, <<"b", "f1.xlsx">>, <<"a", "f2.xls">> }

\* Zero bytes: the content of a file that was opened for writing and not
\* written.
EmptyBytes == <<>>

\* What the upstream server answers for a uri (r.content); upstream data is
\* unchanged over the runs.
Upstream(uri) == uri \o <<"bytes">>

\* uri.split('/')[-1]
FinalSegment(uri) == uri[Len(uri)]

\* Harvested title -> uri maps (dicts, in insertion order; titles are the
\* keys, hence distinct: the title of the k-th item is k).
UriMaps ==
    UNION { { [k \in 1..n |-> [title |-> k, uri |-> us[k]]] : us \in [1..n -> URIS] }
            : n \in 0..MaxUris }

VARIABLES
    uris,            \* the harvested title -> uri map
    disk,            \* target directory: file name -> content
    pc,              \* position of the downloader process
    i,               \* enumerate index of download_multiple_sheets
    nmax,            \* the cap of the current run (None: uncapped)
    file_title_maps, \* the map built at the start of the run
    resp,            \* r.content of the response in hand
    result,          \* <<map>> once the run has returned its map, None before
    disk0,           \* history: the directory when the current run started
    reqs,            \* history: indexes a request was issued for in this run
    seen,            \* history: <<index, content>> of files that existed when reached
    failed,          \* history: indexes whose fetch raised in this run
    created,         \* history: number of files this run fetched anew
    pending,         \* history: uris whose fetch raised and never succeeded since
    interrupted,     \* history: <<start directory, cap>> of a killed run being resumed
    slept            \* history: time.sleep ran since the last request of this run

dlvars == <<uris, disk, pc, i, nmax, file_title_maps, resp, result,
            disk0, reqs, seen, failed, created, pending, interrupted, slept>>

VARIABLES
    known,           \* API track: legislature id -> list of its known poll ids
    store,           \* API track: raw artifacts on disk, keyed <<entity type, id>>
    apipc,           \* API track: position of the remaining-votes batch
    leg,             \* legislature id of the current batch
    dry,             \* dry flag of the current batch
    missing,         \* the work list the missing-polls helper returned
    queue,           \* the part of the work list still to fetch
    calls            \* history: network calls of the current batch

apivars == <<known, store, apipc, leg, dry, missing, queue, calls>>

VARIABLES
    raw_poll,        \* API parser: raw votes JSON of one poll
    votes_df,        \* API parser: the Vote rows parsed from it
    votes_done       \* API parser: whether the poll has been parsed

votevars == <<raw_poll, votes_df, votes_done>>

VARIABLES
    sheet_file,      \* sheet parser: the spreadsheet file handed to get_sheet_df
    sheet_out,       \* sheet parser: "todo", "none" (skipped), "raised", "df"
    sheet_df         \* sheet parser: rows of the returned table

sheetvars == <<sheet_file, sheet_out, sheet_df>>

VARIABLES
    full_title,      \* title extraction: the title known for the sheet file
    file_name,       \* title extraction: sheet_file.name
    td_out           \* title extraction: <<title, date>> returned, None before

titlevars == <<full_title, file_name, td_out>>

VARIABLES
    sq_df,           \* melt: the validated wide table handed to it
    sq_out           \* melt: its outcome and long table, None before

squishvars == <<sq_df, sq_out>>

VARIABLES
    b_files,         \* batch parse: sheet_files, each [name, book, title]
    b_idx,           \* batch parse: index of the next sheet file
    b_list,          \* batch parse: the list df of long tables appended so far
    b_out            \* batch parse: [out, df], out "todo", "running", "df" or "raised"

batchvars == <<b_files, b_idx, b_list, b_out>>

VARIABLES
    h_pages,         \* harvest: the listing pages, in scan order
    h_out            \* harvest: [out, uris] of collect_sheet_uris, None before

harvestvars == <<h_pages, h_out>>

VARIABLES
    p_pages,         \* pipeline: the listing pages under html_path
    p_pc,            \* pipeline: position of get_multiple_sheets
    p_cap,           \* pipeline: nmax of the current call
    p_out,           \* pipeline: [out, df] of the current call
    p_read,          \* pipeline: sheet files the parser read in the current call
    p_prev           \* pipeline: [cap, disk, df] of the call before, when it returned

pipevars == <<p_pages, p_pc, p_cap, p_out, p_read, p_prev>>

VARIABLES
    party_in,        \* party: the Fraktion/Gruppe column handed to disambiguate_party
    party_col,       \* party: the column now
    party_once,      \* party: the column after the first application
    party_n          \* party: number of applications so far

partyvars == <<party_in, party_col, party_once, party_n>>

VARIABLES
    dry_last         \* API: <<kind>> of the request last built by a dry-run call, None before

dryvars == <<dry_last>>

morevars == <<titlevars, squishvars, batchvars, harvestvars, pipevars, partyvars, dryvars>>

vars == <<dlvars, apivars, votevars, sheetvars, morevars>>

\* ------------------------------------------------------------------------
\* Sheet Downloader
\* ------------------------------------------------------------------------
Running == {"loop", "open", "get", "write", "sleep"}

Stopped == {"idle", "returned", "raised", "killed"}

\* (title, uri) at enumerate index k (0-based)
Item(k) == uris[k + 1]

Target(k) == FinalSegment(Item(k).uri)

\* Mutant of Exists: the path tested is sheet_path / uri, which never exists.
ExistsFullUri(f) == FALSE

\* Mutant of Exists: a zero-byte file counts as missing.
ExistsNonEmpty(f) == f \in DOMAIN disk /\ disk[f] # EmptyBytes

\* (Path(sheet_path) / uri.split('/')[-1]).exists()
Exists(f) == f \in DOMAIN disk

\* {uri.split('/')[-1]: title for title, uri in uris.items()}: a later item
\* with the same file name overwrites the earlier one.
FileTitleMaps(m) ==
    [f \in { FinalSegment(m[k].uri) : k \in 1..Len(m) } |->
        LET last == CHOOSE k \in 1..Len(m) :
                        /\ FinalSegment(m[k].uri) = f
                        /\ \A j \in 1..Len(m) : FinalSegment(m[j].uri) = f => j <= k
        IN  m[last].title]

\* nmax is not None and i > nmax
CapReached(cap, k) == cap # None /\ k > cap[1]

\* open(path, 'wb'): creates the file, or truncates it
OpenWb(d, f) == [g \in DOMAIN d \cup {f} |-> IF g = f THEN EmptyBytes ELSE d[g]]

\* f.write(content) and the close at the end of the with block
WriteClose(d, f, content) == [g \in DOMAIN d \cup {f} |-> IF g = f THEN content ELSE d[g]]

Caps == {None} \cup { <<n>> : n \in 0..MaxCap }

\* download_multiple_sheets(uris, sheet_path, nmax=cap) is called
StartRun(cap) ==
    /\ UNCHANGED <<apivars, votevars, sheetvars, morevars>>
    /\ pc \in Stopped
    /\ pc' = "loop"
    /\ i' = 0
    /\ nmax' = cap
    /\ file_title_maps' = FileTitleMaps(uris)
    /\ resp' = None
    /\ result' = None
    /\ disk0' = disk
    /\ reqs' = {}
    /\ seen' = {}
    /\ failed' = {}
    /\ created' = 0
    /\ interrupted' = IF pc = "killed" /\ interrupted # None /\ interrupted[2] = cap
                      THEN interrupted ELSE None
    /\ slept' = TRUE
    /\ UNCHANGED <<uris, disk, pending>>

\* the for loop has no item left
LoopExhausted ==
    /\ UNCHANGED <<apivars, votevars, sheetvars, morevars>>
    /\ pc = "loop"
    /\ i >= Len(uris)
    /\ pc' = "returned"
    /\ result' = <<file_title_maps>>
    /\ UNCHANGED <<uris, disk, i, nmax, file_title_maps, resp, disk0, reqs, seen,
                   failed, created, pending, interrupted, slept>>

\* if nmax is not None and i > nmax: break
LoopBreak ==
    /\ UNCHANGED <<apivars, votevars, sheetvars, morevars>>
    /\ pc = "loop"
    /\ i < Len(uris)
    /\ CapReached(nmax, i)
    /\ pc' = "returned"
    /\ result' = <<file_title_maps>>
    /\ UNCHANGED <<uris, disk, i, nmax, file_title_maps, resp, disk0, reqs, seen,
                   failed, created, pending, interrupted, slept>>

\* if (Path(sheet_path) / uri.split('/')[-1]).exists(): continue
LoopSkip ==
    /\ UNCHANGED <<apivars, votevars, sheetvars, morevars>>
    /\ pc = "loop"
    /\ i < Len(uris)
    /\ ~CapReached(nmax, i)
    /\ Exists(Target(i))
    /\ seen' = seen \cup {<<i, disk[Target(i)]>>}
    /\ i' = i + 1
    /\ UNCHANGED <<uris, disk, pc, nmax, file_title_maps, resp, result, disk0, reqs,
                   failed, created, pending, interrupted, slept>>

\* download_sheet(uri, sheet_path) is entered
LoopDownload ==
    /\ UNCHANGED <<apivars, votevars, sheetvars, morevars>>
    /\ pc = "loop"
    /\ i < Len(uris)
    /\ ~CapReached(nmax, i)
    /\ ~Exists(Target(i))
    /\ pc' = "open"
    /\ UNCHANGED <<uris, disk, i, nmax, file_title_maps, resp, result, disk0, reqs,
                   seen, failed, created, pending, interrupted, slept>>

\* download_sheet: with open(path, 'wb') as f
Open ==
    /\ UNCHANGED <<apivars, votevars, sheetvars, morevars>>
    /\ pc = "open"
    /\ disk' = OpenWb(disk, Target(i))
    /\ pc' = "get"
    /\ UNCHANGED <<uris, i, nmax, file_title_maps, resp, result, disk0, reqs, seen,
                   failed, created, pending, interrupted, slept>>

\* download_sheet: r = requests.get(uri) answers
GetOk ==
    /\ UNCHANGED <<apivars, votevars, sheetvars, morevars>>
    /\ pc = "get"
    /\ resp' = Upstream(Item(i).uri)
    /\ reqs' = reqs \cup {i}
    /\ pc' = "write"
    /\ slept' = FALSE
    /\ UNCHANGED <<uris, disk, i, nmax, file_title_maps, result, disk0, seen,
                   failed, created, pending, interrupted>>

\* download_sheet: r = requests.get(uri) raises; the with block closes the
\* file and neither download_sheet nor download_multiple_sheets catches
GetRaise ==
    /\ UNCHANGED <<apivars, votevars, sheetvars, morevars>>
    /\ pc = "get"
    /\ reqs' = reqs \cup {i}
    /\ failed' = failed \cup {i}
    /\ pending' = pending \cup {Item(i).uri}
    /\ interrupted' = None
    /\ pc' = "raised"
    /\ slept' = FALSE
    /\ UNCHANGED <<uris, disk, i, nmax, file_title_maps, resp, result, disk0, seen,
                   created>>

\* download_sheet: f.write(r.content), end of the with block
Write ==
    /\ UNCHANGED <<apivars, votevars, sheetvars, morevars>>
    /\ pc = "write"
    /\ disk' = WriteClose(disk, Target(i), resp)
    /\ created' = created + 1
    /\ pending' = pending \ {Item(i).uri}
    /\ pc' = "sleep"
    /\ UNCHANGED <<uris, i, nmax, file_title_maps, resp, result, disk0, reqs, seen,
                   failed, interrupted, slept>>

\* Mutant of Sleep: the loop goes to the next item without sleeping.
SleepOmitted ==
    /\ UNCHANGED <<apivars, votevars, sheetvars, morevars>>
    /\ pc = "sleep"
    /\ i' = i + 1
    /\ pc' = "loop"
    /\ UNCHANGED slept
    /\ UNCHANGED <<uris, disk, nmax, file_title_maps, resp, result, disk0, reqs, seen,
                   failed, created, pending, interrupted>>

\* time.sleep(t_sleep), next item
Sleep ==
    /\ UNCHANGED <<apivars, votevars, sheetvars, morevars>>
    /\ pc = "sleep"
    /\ i' = i + 1
    /\ pc' = "loop"
    /\ slept' = TRUE
    /\ UNCHANGED <<uris, disk, nmax, file_title_maps, resp, result, disk0, reqs, seen,
                   failed, created, pending, interrupted>>

\* the process is terminated from outside
Kill ==
    /\ UNCHANGED <<apivars, votevars, sheetvars, morevars>>
    /\ pc \in Running
    /\ pc' = "killed"
    /\ interrupted' = IF interrupted = None THEN <<disk0, nmax>> ELSE interrupted
    /\ UNCHANGED <<uris, disk, i, nmax, file_title_maps, resp, result, disk0, reqs,
                   seen, failed, created, pending, slept>>

IdleApi ==
    /\ known = <<>>
    /\ store = {}
    /\ apipc = "idle"
    /\ leg = 0
    /\ dry = FALSE
    /\ missing = <<>>
    /\ queue = <<>>
    /\ calls = 0

IdleVotes ==
    /\ raw_poll = <<>>
    /\ votes_df = <<>>
    /\ votes_done = FALSE

IdleSheet ==
    /\ sheet_file = <<>>
    /\ sheet_out = "todo"
    /\ sheet_df = <<>>

IdleTitle ==
    /\ full_title = <<>>
    /\ file_name = <<>>
    /\ td_out = None

IdleSquish ==
    /\ sq_df = <<>>
    /\ sq_out = None

IdleBatch ==
    /\ b_files = <<>>
    /\ b_idx = 0
    /\ b_list = <<>>
    /\ b_out = [out |-> "todo", df |-> <<>>]

IdleHarvest ==
    /\ h_pages = <<>>
    /\ h_out = None

IdlePipe ==
    /\ p_pages = <<>>
    /\ p_pc = "idle"
    /\ p_cap = None
    /\ p_out = [out |-> "todo", df |-> <<>>]
    /\ p_read = {}
    /\ p_prev = None

IdleParty ==
    /\ party_in = <<>>
    /\ party_col = <<>>
    /\ party_once = <<>>
    /\ party_n = 0

IdleDry == dry_last = None

IdleMore ==
    /\ IdleDry
    /\ IdleParty
    /\ IdleTitle
    /\ IdleSquish
    /\ IdleBatch
    /\ IdleHarvest
    /\ IdlePipe

IdleDownloader ==
    /\ disk = <<>>
    /\ pc = "idle"
    /\ i = 0
    /\ nmax = None
    /\ file_title_maps = <<>>
    /\ resp = None
    /\ result = None
    /\ disk0 = <<>>
    /\ reqs = {}
    /\ seen = {}
    /\ failed = {}
    /\ created = 0
    /\ pending = {}
    /\ interrupted = None
    /\ slept = TRUE

Init ==
    /\ IdleApi
    /\ IdleVotes
    /\ IdleSheet
    /\ IdleMore
    /\ uris \in UriMaps
    /\ IdleDownloader

Next ==
    \/ \E cap \in Caps : StartRun(cap)
    \/ LoopExhausted
    \/ LoopBreak
    \/ LoopSkip
    \/ LoopDownload
    \/ Open
    \/ GetOk
    \/ GetRaise
    \/ Write
    \/ Sleep
    \/ Kill

\* The uncapped downloader invoked again and again, never killed.
NextLive ==
    \/ StartRun(None)
    \/ LoopExhausted
    \/ LoopSkip
    \/ LoopDownload
    \/ Open
    \/ GetOk
    \/ GetRaise
    \/ Write
    \/ Sleep

\* The process keeps taking steps and is started again whenever it has
\* stopped; a fetch that is attempted again and again eventually answers.
LiveSpec ==
    /\ Init
    /\ [][NextLive]_vars
    /\ WF_vars(NextLive)
    /\ \A k \in 0..(MaxUris - 1) : SF_vars(GetOk /\ i = k)

\* The directory an uninterrupted run with the cap `cap` leaves when started
\* on directory d and every fetch answers (lines 227-231 unrolled from item k).
RECURSIVE RunFrom(_, _, _)
RunFrom(d, cap, k) ==
    IF k >= Len(uris) \/ CapReached(cap, k) THEN d
    ELSE IF FinalSegment(Item(k).uri) \in DOMAIN d THEN RunFrom(d, cap, k + 1)
    ELSE RunFrom(WriteClose(OpenWb(d, FinalSegment(Item(k).uri)),
                            FinalSegment(Item(k).uri), Upstream(Item(k).uri)),
                 cap, k + 1)

CompleteRun(d, cap) == RunFrom(d, cap, 0)

Indexes == 0..(Len(uris) - 1)

\* ------------------------------------------------------------------------
\* API Paginator: resumable per-poll vote retrieval (design document 4.4)
\* ------------------------------------------------------------------------
LegislatureIds == {111, 132}

PollIds == 1..MaxPolls

\* poll ids of every legislature's known list
AllKnownIds == UNION { { known[l][k] : k \in 1..Len(known[l]) } : l \in DOMAIN known }

\* poll ids with a raw votes artifact on disk
StoredVoteIds == { a[2] : a \in { b \in store : b[1] = "votes" } }

\* Mutant of MissingPolls: the legislature's whole list, nothing resumed.
MissingPollsAll(l) == known[l]

\* the helper of get_all_remaining_vote_data: the known poll ids of the
\* legislature, in list order, that have no raw votes artifact on disk
MissingPolls(l) ==
    LET NotOnDisk(p) == p \notin StoredVoteIds
    IN  SelectSeq(known[l], NotOnDisk)

\* request_poll_data + store_polls_json: the legislature's poll list on disk
\* now holds one more poll
StorePollsJson(l, p) ==
    /\ apipc = "idle"
    /\ p \notin AllKnownIds
    /\ known' = [known EXCEPT ![l] = Append(@, p)]
    /\ store' = store \cup {<<"polls", l>>}
    /\ UNCHANGED <<apipc, leg, dry, missing, queue, calls>>
    /\ UNCHANGED <<dlvars, votevars, sheetvars, morevars>>

\* request_vote_data + store_vote_json for one given poll
StoreVoteJson(p) ==
    /\ apipc = "idle"
    /\ <<"votes", p>> \notin store
    /\ store' = store \cup {<<"votes", p>>}
    /\ UNCHANGED <<known, apipc, leg, dry, missing, queue, calls>>
    /\ UNCHANGED <<dlvars, votevars, sheetvars, morevars>>

\* Mutant of StoreJson: the dry flag is ignored.
StoreJsonAlways(s, a, d) == s \cup {a}

\* store_*_json(data, id, dry=d, path): the Artifact Store after the call
StoreJson(s, a, d) == IF d THEN s ELSE s \cup {a}

\* what a dry-run call can be asked for: the poll list or the mandate list
\* of a legislature, or the votes of a poll
DryRequests ==
    ({"polls", "mandates"} \X LegislatureIds) \cup ({"votes"} \X PollIds)

\* request_*_data(id, dry=True) followed by store_*_json(data, id, dry=True):
\* the request is built, no network call is made and nothing is written
RequestStoreDry(a) ==
    /\ apipc = "idle"
    /\ dry_last' = <<a[1]>>
    /\ store' = StoreJson(store, a, TRUE)
    /\ UNCHANGED <<known, apipc, leg, dry, missing, queue, calls>>
    /\ UNCHANGED <<dlvars, votevars, sheetvars>>
    /\ UNCHANGED <<titlevars, squishvars, batchvars, harvestvars, pipevars, partyvars>>

\* get_all_remaining_vote_data(legislature_id, dry=d): the work list is computed
GetAllRemaining(l, d) ==
    /\ apipc = "idle"
    /\ leg' = l
    /\ dry' = d
    /\ missing' = MissingPolls(l)
    /\ queue' = MissingPolls(l)
    /\ calls' = 0
    /\ apipc' = "listed"
    /\ UNCHANGED <<known, store>>
    /\ UNCHANGED <<dlvars, votevars, sheetvars, morevars>>

\* the next missing poll is fetched and stored
RequestVoteOk ==
    /\ apipc \in {"listed", "fetching"}
    /\ queue # <<>>
    /\ ~dry
    /\ calls' = calls + 1
    /\ store' = store \cup {<<"votes", Head(queue)>>}
    /\ queue' = Tail(queue)
    /\ apipc' = "fetching"
    /\ UNCHANGED <<known, leg, dry, missing>>
    /\ UNCHANGED <<dlvars, votevars, sheetvars, morevars>>

\* the fetch of the next missing poll fails: nothing is stored for it and the
\* batch goes on
RequestVoteFail ==
    /\ apipc \in {"listed", "fetching"}
    /\ queue # <<>>
    /\ ~dry
    /\ calls' = calls + 1
    /\ queue' = Tail(queue)
    /\ apipc' = "fetching"
    /\ UNCHANGED <<known, store, leg, dry, missing>>
    /\ UNCHANGED <<dlvars, votevars, sheetvars, morevars>>

\* dry run: the request is built, no network call and no write
RequestVoteDry ==
    /\ apipc \in {"listed", "fetching"}
    /\ queue # <<>>
    /\ dry
    /\ queue' = Tail(queue)
    /\ apipc' = "fetching"
    /\ UNCHANGED <<known, store, leg, dry, missing, calls>>
    /\ UNCHANGED <<dlvars, votevars, sheetvars, morevars>>

\* the batch is through its work list
RemainingDone ==
    /\ apipc \in {"listed", "fetching"}
    /\ queue = <<>>
    /\ apipc' = "idle"
    /\ UNCHANGED <<known, store, leg, dry, missing, queue, calls>>
    /\ UNCHANGED <<dlvars, votevars, sheetvars, morevars>>

InitPolls ==
    /\ uris = <<>>
    /\ IdleDownloader
    /\ IdleMore
    /\ IdleVotes
    /\ IdleSheet
    /\ known = [l \in LegislatureIds |-> <<>>]
    /\ store = {}
    /\ apipc = "idle"
    /\ leg = 111
    /\ dry = FALSE
    /\ missing = <<>>
    /\ queue = <<>>
    /\ calls = 0

NextPolls ==
    \/ \E l \in LegislatureIds, p \in PollIds : StorePollsJson(l, p)
    \/ \E p \in PollIds : StoreVoteJson(p)
    \/ \E l \in LegislatureIds, d \in BOOLEAN : GetAllRemaining(l, d)
    \/ RequestVoteOk
    \/ RequestVoteFail
    \/ RequestVoteDry
    \/ RemainingDone
    \/ \E a \in DryRequests : RequestStoreDry(a)

SpecPolls == InitPolls /\ [][NextPolls]_vars

\* ------------------------------------------------------------------------
\* API Parser: votes of one poll (design document 4.5)
\* ------------------------------------------------------------------------
MandateIds == {7, 8}

VoteValues == {"yes", "no", "no_show", "abstain"}

VoteEntries == [mandate_id : MandateIds, vote : VoteValues]

RawPolls ==
    UNION { [poll_id : PollIds, votes : [1..n -> VoteEntries]] : n \in 0..MaxEntries }

\* Mutant of KeepFirst: an entry is dropped when its mandate_id comes again
\* later, so the last occurrence is kept.
RECURSIVE KeepLast(_, _)
KeepLast(entries, met) ==
    IF entries = <<>> THEN <<>>
    ELSE IF \E k \in 2..Len(entries) : entries[k].mandate_id = Head(entries).mandate_id
         THEN KeepLast(Tail(entries), met)
         ELSE <<Head(entries)>> \o KeepLast(Tail(entries), met)

\* the vote entries in arrival order, an entry dropped when its mandate_id
\* has been met before
RECURSIVE KeepFirst(_, _)
KeepFirst(entries, met) ==
    IF entries = <<>> THEN <<>>
    ELSE IF Head(entries).mandate_id \in met THEN KeepFirst(Tail(entries), met)
    ELSE <<Head(entries)>> \o KeepFirst(Tail(entries), met \cup {Head(entries).mandate_id})

\* one Vote row per kept entry
ParseVotes(raw) ==
    LET kept == KeepFirst(raw.votes, {})
    IN  [k \in 1..Len(kept) |->
            [mandate_id |-> kept[k].mandate_id, poll_id |-> raw.poll_id, vote |-> kept[k].vote]]

\* get_votes_df(legislature_id, poll_id)
GetVotesDf ==
    /\ ~votes_done
    /\ votes_df' = ParseVotes(raw_poll)
    /\ votes_done' = TRUE
    /\ UNCHANGED raw_poll
    /\ UNCHANGED <<dlvars, apivars, sheetvars, morevars>>

InitVotes ==
    /\ uris = <<>>
    /\ IdleDownloader
    /\ IdleMore
    /\ IdleApi
    /\ IdleSheet
    /\ raw_poll \in RawPolls
    /\ votes_df = <<>>
    /\ votes_done = FALSE

NextVotes == GetVotesDf

SpecVotes == InitVotes /\ [][NextVotes]_vars

\* ------------------------------------------------------------------------
\* Sheet Parser: get_sheet_df
\* ------------------------------------------------------------------------
\* (the fourth column, "ungültig" in the source, is spelled in ASCII here)
VOTE_COLS == <<"ja", "nein", "Enthaltung", "ungueltig", "nichtabgegeben">>

VoteColSet == { VOTE_COLS[k] : k \in 1..Len(VOTE_COLS) }

\* values of an outcome cell: a one-hot flag, or a stray count
CellValues == {0, 1, 2}

\* df[VOTE_COLS].sum(axis=1) of one row
RowSum(r) == r["ja"] + r["nein"] + r["Enthaltung"] + r["ungueltig"] + r["nichtabgegeben"]

FlagRows == { r \in [VoteColSet -> CellValues] : RowSum(r) <= 2 }

Tables == UNION { [1..n -> FlagRows] : n \in 0..MaxRows }

\* a workbook is the list of its pages; a second page, where there is one, is
\* an empty table
Workbooks == { <<t>> : t \in Tables } \cup { <<t, <<>>>> : t \in Tables }

SheetFiles == {EmptyBytes} \cup Workbooks

\* Path(sheet_file).stat().st_size
StSize(file) == Len(file)

\* assert not (df[VOTE_COLS].sum(axis=1) == 0).any()
NoRowSumsToZero(df) == ~(\E k \in 1..Len(df) : RowSum(df[k]) = 0)

\* Mutant of NoRowSumsAboveOne: the second check is missing.
NoCheckAboveOne(df) == TRUE

\* assert not (df[VOTE_COLS].sum(axis=1) > 1).any()
NoRowSumsAboveOne(df) == ~(\E k \in 1..Len(df) : RowSum(df[k]) > 1)

\* get_sheet_df(sheet_file): "none" for the early return, "raised" for a
\* failed assert, "df" with the table otherwise
SheetDf(file) ==
    IF StSize(file) = 0 THEN [out |-> "none", df |-> <<>>]
    ELSE IF Len(file) # 1 THEN [out |-> "raised", df |-> <<>>]
    ELSE IF ~NoRowSumsToZero(file[Len(file)]) THEN [out |-> "raised", df |-> <<>>]
    ELSE IF ~NoRowSumsAboveOne(file[Len(file)]) THEN [out |-> "raised", df |-> <<>>]
    ELSE [out |-> "df", df |-> file[Len(file)]]

GetSheetDf ==
    /\ sheet_out = "todo"
    /\ sheet_out' = SheetDf(sheet_file).out
    /\ sheet_df' = SheetDf(sheet_file).df
    /\ UNCHANGED sheet_file
    /\ UNCHANGED <<dlvars, apivars, votevars, morevars>>

InitSheet ==
    /\ uris = <<>>
    /\ IdleDownloader
    /\ IdleMore
    /\ IdleApi
    /\ IdleVotes
    /\ sheet_file \in SheetFiles
    /\ sheet_out = "todo"
    /\ sheet_df = <<>>

NextSheet == GetSheetDf

SpecSheet == InitSheet /\ [][NextSheet]_vars

\* ------------------------------------------------------------------------
\* Sheet Parser: handle_title_and_date
\* ------------------------------------------------------------------------
\* A string is the sequence of its pieces; ":" and "_" are the separators
\* the code splits on.
TitlePieces == {"10.09.2020", ":", " Example Vote"}

TitleStrings == UNION { [1..n -> TitlePieces] : n \in 0..MaxTitleLen }

FileNames == { <<"20200910", "_", "2.xlsx">>, <<"10.09.2020", "_", "x.xls">>, <<"f1.xlsx">> }

\* s.split(sep), left to right: cur is the part being read
RECURSIVE SplitFrom(_, _, _)
SplitFrom(s, sep, cur) ==
    IF s = <<>> THEN <<cur>>
    ELSE IF Head(s) = sep THEN <<cur>> \o SplitFrom(Tail(s), sep, <<>>)
    ELSE SplitFrom(Tail(s), sep, Append(cur, Head(s)))

Split(s, sep) == SplitFrom(s, sep, <<>>)

\* sep.join(parts)
RECURSIVE Join(_, _)
Join(parts, sep) ==
    IF parts = <<>> THEN <<>>
    ELSE IF Len(parts) = 1 THEN parts[1]
    ELSE parts[1] \o <<sep>> \o Join(Tail(parts), sep)

\* date = None, kept apart from the dates, which are strings
NoDate == "None"

\* pd.to_datetime(s, dayfirst=...): the empty string gives NaT, a date
\* string its date ("10.09.2020" is the 10th of September read day first and
\* the 9th of October otherwise), anything else raises ("raise")
ToDatetime(s, dayfirst) ==
    IF s = <<>> THEN "NaT"
    ELSE IF s = <<"10.09.2020">> THEN (IF dayfirst THEN "2020-09-10" ELSE "2020-10-09")
    ELSE IF s = <<"20200910">> THEN "2020-09-10"
    ELSE "raise"

\* is_date(s, fun)
is_date(s, dayfirst) == ToDatetime(s, dayfirst) # "raise"

\* Mutant of handle_title_and_date: only the part between the first and the
\* second colon is kept as title.
handle_title_and_date_second_part(title, name) ==
    LET parts == Split(title, ":")
    IN  IF is_date(parts[1], TRUE)
        THEN <<(IF Len(parts) > 1 THEN parts[2] ELSE <<>>), ToDatetime(parts[1], TRUE)>>
        ELSE IF is_date(Split(name, "_")[1], FALSE)
        THEN <<title, ToDatetime(Split(name, "_")[1], FALSE)>>
        ELSE <<title, NoDate>>

\* handle_title_and_date(full_title, sheet_file): <<title, date>>
handle_title_and_date(title, name) ==
    LET parts == Split(title, ":")
    IN  IF is_date(parts[1], TRUE)
        THEN <<Join(Tail(parts), ":"), ToDatetime(parts[1], TRUE)>>
        ELSE IF is_date(Split(name, "_")[1], FALSE)
        THEN <<title, ToDatetime(Split(name, "_")[1], FALSE)>>
        ELSE <<title, NoDate>>

HandleTitleAndDate ==
    /\ td_out = None
    /\ td_out' = handle_title_and_date(full_title, file_name)
    /\ UNCHANGED <<full_title, file_name>>
    /\ UNCHANGED <<dlvars, apivars, votevars, sheetvars, squishvars, batchvars, harvestvars, pipevars, partyvars, dryvars>>

InitTitle ==
    /\ uris = <<>>
    /\ IdleDownloader
    /\ IdleApi
    /\ IdleVotes
    /\ IdleSheet
    /\ IdleDry
    /\ IdleParty
    /\ IdleSquish
    /\ IdleBatch
    /\ IdleHarvest
    /\ IdlePipe
    /\ full_title \in TitleStrings
    /\ file_name \in FileNames
    /\ td_out = None

NextTitle == HandleTitleAndDate

SpecTitle == InitTitle /\ [][NextTitle]_vars

\* ------------------------------------------------------------------------
\* Sheet Parser: get_squished_dataframe
\* ------------------------------------------------------------------------
\* A wide table is [rows, date, title]: the rows carry the display name and
\* the five outcome cells; date and title are the same in every row of one
\* sheet, as get_sheet_df assigns one value to the whole column.
Bezeichnungen == {"A", "B"}

WithName(r, n) ==
    [c \in VoteColSet \cup {"Bezeichnung"} |-> IF c = "Bezeichnung" THEN n ELSE r[c]]

\* rows that pass both assertions of get_sheet_df
ValidRows ==
    { WithName(r, n) : r \in { q \in FlagRows : RowSum(q) = 1 /\ \A c \in VoteColSet : q[c] <= 1 },
                       n \in Bezeichnungen }

WideTables ==
    { [rows |-> t, date |-> d, title |-> <<" Example Vote">>] :
        t \in UNION { [1..n -> ValidRows] : n \in 0..MaxSqRows },
        d \in {"2020-09-10", NoDate} }

\* df['date'].dt.date.apply(str) + ' ' + df['title']
Issue(date, title) == <<date, " ">> \o title

\* tmp[tmp == 1].stack(): per row, in row order, one entry per outcome
\* column holding 1, in column order
RECURSIVE Stack(_, _, _)
Stack(rows, date, title) ==
    IF rows = <<>> THEN <<>>
    ELSE LET r    == Head(rows)
             ones == SelectSeq(VOTE_COLS, LAMBDA c : r[c] = 1)
         IN  [k \in 1..Len(ones) |->
                 [Bezeichnung |-> r["Bezeichnung"], date |-> date, title |-> title,
                  issue |-> Issue(date, title), vote |-> ones[k]]]
             \o Stack(Tail(rows), date, title)

\* df.join(tmp.set_index(['Bezeichnung', 'date', 'title']), on=[...]): a left
\* join; every row of df is paired with every entry of tmp that has its key
RECURSIVE JoinOnKey(_, _, _, _)
JoinOnKey(rows, date, title, tmp) ==
    IF rows = <<>> THEN <<>>
    ELSE LET r == Head(rows)
             m == SelectSeq(tmp, LAMBDA t : /\ t.Bezeichnung = r["Bezeichnung"]
                                            /\ t.date = date
                                            /\ t.title = title)
         IN  (IF m = <<>>
              THEN <<[Bezeichnung |-> r["Bezeichnung"], date |-> date, title |-> title,
                      issue |-> "nan", vote |-> "nan"]>>
              ELSE m)
             \o JoinOnKey(Tail(rows), date, title, tmp)

\* get_squished_dataframe(df): .dt on a date column of None raises
get_squished_dataframe(df) ==
    IF df.date = NoDate THEN [out |-> "raised", df |-> <<>>]
    ELSE [out |-> "df",
          df  |-> JoinOnKey(df.rows, df.date, df.title, Stack(df.rows, df.date, df.title))]

\* pd.get_dummies on the vote column with categories VOTE_COLS: the five
\* one-hot columns of a long table, beside the name
GetDummies(long) ==
    [k \in 1..Len(long) |->
        [c \in VoteColSet \cup {"Bezeichnung"} |->
            IF c = "Bezeichnung" THEN long[k].Bezeichnung
            ELSE IF long[k].vote = c THEN 1 ELSE 0]]

GetSquishedDataframe ==
    /\ sq_out = None
    /\ sq_out' = get_squished_dataframe(sq_df)
    /\ UNCHANGED sq_df
    /\ UNCHANGED <<dlvars, apivars, votevars, sheetvars, titlevars, batchvars, harvestvars, pipevars, partyvars, dryvars>>

InitSquish ==
    /\ uris = <<>>
    /\ IdleDownloader
    /\ IdleApi
    /\ IdleVotes
    /\ IdleSheet
    /\ IdleDry
    /\ IdleParty
    /\ IdleTitle
    /\ IdleBatch
    /\ IdleHarvest
    /\ IdlePipe
    /\ sq_df \in WideTables
    /\ sq_out = None

NextSquish == GetSquishedDataframe

SpecSquish == InitSquish /\ [][NextSquish]_vars

\* ------------------------------------------------------------------------
\* Sheet Parser: get_multiple_sheets_df
\* ------------------------------------------------------------------------
NoFlags == [c \in VoteColSet |-> 0]

RowOf(n, col) == WithName([NoFlags EXCEPT ![col] = 1], n)

BatchRows == { RowOf("A", "ja"), RowOf("B", "nein") }

\* what a sheet file can hold: nothing, a validated table, a table with a
\* row of no flag, a table with a row of two flags, or two pages
BatchBooks ==
    {EmptyBytes}
    \cup { <<t>> : t \in [1..1 -> BatchRows] \cup [1..2 -> BatchRows] }
    \cup { << <<WithName(NoFlags, "A")>> >>,
           << <<RowOf("A", "ja"), WithName([NoFlags EXCEPT !["ja"] = 1, !["nein"] = 1], "B")>> >>,
           << <<RowOf("A", "ja")>>, <<>> >> }

\* the titles of the listing pages: two dated ones and one without a date
BatchTitles ==
    { <<"10.09.2020", ":", " Example Vote">>,
      <<"10.09.2020", ":", " Other Vote">>,
      <<" Example Vote">> }

\* sheet_file.name of the k-th file of the directory
BatchNames == << <<"s1.xlsx">>, <<"s2.xlsx">>, <<"s3.xlsx">>, <<"s4.xlsx">> >>

\* get_sheet_df(sheet_file, file_title_maps) with the date and title columns
\* (lines 339-344): "none", "raised" or a wide table
SheetDfTitled(f) ==
    LET r  == SheetDf(f.book)
        td == handle_title_and_date(f.title, f.name)
    IN  IF r.out # "df" THEN [out |-> r.out, df |-> <<>>]
        ELSE [out |-> "df", df |-> [rows |-> r.df, date |-> td[2], title |-> td[1]]]

\* get_sheet_df(...).pipe(get_squished_dataframe).pipe(set_sheet_dtypes):
\* .pipe on the None of a zero-byte file raises AttributeError
ParseOne(f) ==
    LET r == SheetDfTitled(f)
    IN  IF r.out = "none" THEN [out |-> "raised", df |-> <<>>]
        ELSE IF r.out = "raised" THEN [out |-> "raised", df |-> <<>>]
        ELSE get_squished_dataframe(r.df)

\* pd.concat(df, ignore_index=True)
RECURSIVE Concat(_)
Concat(list) == IF list = <<>> THEN <<>> ELSE Head(list) \o Concat(Tail(list))

BatchStart ==
    /\ b_out.out = "todo"
    /\ b_out' = [out |-> "running", df |-> <<>>]
    /\ b_list' = <<>>
    /\ b_idx' = 1
    /\ UNCHANGED b_files
    /\ UNCHANGED <<dlvars, apivars, votevars, sheetvars, titlevars, squishvars, harvestvars, pipevars, partyvars, dryvars>>

\* one pass of the loop body that appends
BatchAppend ==
    /\ b_out.out = "running"
    /\ b_idx <= Len(b_files)
    /\ ParseOne(b_files[b_idx]).out = "df"
    /\ b_list' = Append(b_list, ParseOne(b_files[b_idx]).df)
    /\ b_idx' = b_idx + 1
    /\ UNCHANGED <<b_files, b_out>>
    /\ UNCHANGED <<dlvars, apivars, votevars, sheetvars, titlevars, squishvars, harvestvars, pipevars, partyvars, dryvars>>

\* one pass of the loop body that raises: nothing catches it
BatchRaise ==
    /\ b_out.out = "running"
    /\ b_idx <= Len(b_files)
    /\ ParseOne(b_files[b_idx]).out = "raised"
    /\ b_out' = [out |-> "raised", df |-> <<>>]
    /\ UNCHANGED <<b_files, b_idx, b_list>>
    /\ UNCHANGED <<dlvars, apivars, votevars, sheetvars, titlevars, squishvars, harvestvars, pipevars, partyvars, dryvars>>

\* return pd.concat(df, ignore_index=True)
BatchReturn ==
    /\ b_out.out = "running"
    /\ b_idx > Len(b_files)
    /\ b_list # <<>>
    /\ b_out' = [out |-> "df", df |-> Concat(b_list)]
    /\ UNCHANGED <<b_files, b_idx, b_list>>
    /\ UNCHANGED <<dlvars, apivars, votevars, sheetvars, titlevars, squishvars, harvestvars, pipevars, partyvars, dryvars>>

\* pd.concat([]) raises ValueError
BatchConcatNothing ==
    /\ b_out.out = "running"
    /\ b_idx > Len(b_files)
    /\ b_list = <<>>
    /\ b_out' = [out |-> "raised", df |-> <<>>]
    /\ UNCHANGED <<b_files, b_idx, b_list>>
    /\ UNCHANGED <<dlvars, apivars, votevars, sheetvars, titlevars, squishvars, harvestvars, pipevars, partyvars, dryvars>>

InitBatch ==
    /\ uris = <<>>
    /\ IdleDownloader
    /\ IdleApi
    /\ IdleVotes
    /\ IdleSheet
    /\ IdleDry
    /\ IdleParty
    /\ IdleTitle
    /\ IdleSquish
    /\ IdleHarvest
    /\ IdlePipe
    /\ \E n \in 0..MaxFiles : \E f \in [1..n -> [book : BatchBooks, title : BatchTitles]] :
          b_files = [k \in 1..n |-> [name |-> BatchNames[k], book |-> f[k].book, title |-> f[k].title]]
    /\ b_idx = 0
    /\ b_list = <<>>
    /\ b_out = [out |-> "todo", df |-> <<>>]

NextBatch ==
    \/ BatchStart
    \/ BatchAppend
    \/ BatchRaise
    \/ BatchReturn
    \/ BatchConcatNothing

SpecBatch == InitBatch /\ [][NextBatch]_vars

\* ------------------------------------------------------------------------
\* Sheet Link Harvester: collect_sheet_uris
\* ------------------------------------------------------------------------
\* A document-list entry (td data-th="Dokument") is [strong, title, sheet,
\* href]: whether element.div.p.strong exists and its text, whether an
\* anchor with a title matching RE_SHEET exists, and that anchor's href
\* (<<>>: the anchor has no href attribute).
Entries ==
    { [strong |-> TRUE,  title |-> <<"10.09.2020", ":", " Example Vote">>,
       sheet |-> TRUE,  href |-> <<"a", "f1.xlsx">>],
      [strong |-> TRUE,  title |-> <<"10.09.2020", ":", " Example Vote">>,
       sheet |-> TRUE,  href |-> <<"a", "f2.xls">>],
      [strong |-> TRUE,  title |-> <<" ", "10.09.2020", ":", " Other Vote">>,
       sheet |-> TRUE,  href |-> <<"b", "f1.xlsx">>],
      [strong |-> TRUE,  title |-> <<"10.09.2020", ":", " Example Vote">>,
       sheet |-> FALSE, href |-> <<>>],
      [strong |-> FALSE, title |-> <<>>,
       sheet |-> TRUE,  href |-> <<"a", "f1.xlsx">>],
      [strong |-> FALSE, title |-> <<>>,
       sheet |-> FALSE, href |-> <<>>],
      [strong |-> TRUE,  title |-> <<"10.09.2020", ":", " Example Vote">>,
       sheet |-> TRUE,  href |-> <<>>] }

Pages == UNION { [1..n -> Entries] : n \in 0..MaxPageEntries }

\* the two listing pages of the html directory, in scan order
PageLists == [1..2 -> Pages]

\* str.strip(): whitespace pieces at both ends are dropped
RECURSIVE Strip(_)
Strip(t) ==
    IF t = <<>> THEN t
    ELSE IF Head(t) = " " THEN Strip(Tail(t))
    ELSE IF t[Len(t)] = " " THEN Strip(SubSeq(t, 1, Len(t) - 1))
    ELSE t

\* Mutant of DictSet: a title already in the dict keeps its first uri.
DictSetDefault(d, title, uri) ==
    IF \E k \in 1..Len(d) : d[k].title = title
    THEN d
    ELSE Append(d, [title |-> title, uri |-> uri])

\* uris[title] = uri on a dict in insertion order: a known key keeps its
\* place and takes the new value
DictSet(d, title, uri) ==
    IF \E k \in 1..Len(d) : d[k].title = title
    THEN [k \in 1..Len(d) |-> IF d[k].title = title THEN [title |-> title, uri |-> uri] ELSE d[k]]
    ELSE Append(d, [title |-> title, uri |-> uri])

\* the inner loop over the elements of the pages read so far; the title is
\* read before the anchor is looked for, and nothing catches what they raise
RECURSIVE HarvestFrom(_, _)
HarvestFrom(elements, acc) ==
    IF elements = <<>> THEN [out |-> "returned", uris |-> acc]
    ELSE LET e == Head(elements)
         IN  IF ~e.strong THEN [out |-> "raised", uris |-> <<>>]
             ELSE IF ~e.sheet THEN HarvestFrom(Tail(elements), acc)
             ELSE IF e.href = <<>> THEN [out |-> "raised", uris |-> <<>>]
             ELSE HarvestFrom(Tail(elements), DictSet(acc, Strip(e.title), e.href))

\* collect_sheet_uris(html_file_paths)
collect_sheet_uris(pages) == HarvestFrom(Concat(pages), <<>>)

CollectSheetUris ==
    /\ h_out = None
    /\ h_out' = collect_sheet_uris(h_pages)
    /\ UNCHANGED h_pages
    /\ UNCHANGED <<dlvars, apivars, votevars, sheetvars, titlevars, squishvars, batchvars, pipevars, partyvars, dryvars>>

InitHarvest ==
    /\ uris = <<>>
    /\ IdleDownloader
    /\ IdleApi
    /\ IdleVotes
    /\ IdleSheet
    /\ IdleDry
    /\ IdleParty
    /\ IdleTitle
    /\ IdleSquish
    /\ IdleBatch
    /\ IdlePipe
    /\ h_pages \in PageLists
    /\ h_out = None

NextHarvest == CollectSheetUris

SpecHarvest == InitHarvest /\ [][NextHarvest]_vars

\* ------------------------------------------------------------------------
\* Sheet pipeline: get_multiple_sheets
\* ------------------------------------------------------------------------
\* the workbook that the bytes served for a uri hold
UpstreamBook(uri) ==
    IF uri = <<"a", "f1.xlsx">> THEN << <<RowOf("A", "ja")>> >>
    ELSE IF uri = <<"b", "f1.xlsx">> THEN << <<RowOf("B", "nein")>> >>
    ELSE << <<RowOf("A", "ja"), RowOf("B", "nein")>> >>

\* pd.read_excel(sheet_file, sheet_name=None) of a file that was written
ReadExcel(content) == UpstreamBook(SubSeq(content, 1, Len(content) - 1))

\* get_file_paths(sheet_path, pattern=RE_FNAME): the files of the directory
\* whose name holds .xls or .xlsx, in the order the directory lists them,
\* which is the same for the same directory
ListDir(d) == SelectSeq(<<"f0.xlsx", "f1.xlsx", "f2.xls">>, LAMBDA f : f \in DOMAIN d)

\* the loop body of get_multiple_sheets_df on a file of the directory;
\* file_title_maps[sheet_file.name] raises KeyError for a name not in the map
ParseListed(f, d, map) ==
    IF d[f] = EmptyBytes THEN [out |-> "raised", df |-> <<>>]
    ELSE IF SheetDf(ReadExcel(d[f])).out # "df" THEN [out |-> "raised", df |-> <<>>]
    ELSE IF f \notin DOMAIN map THEN [out |-> "raised", df |-> <<>>]
    ELSE ParseOne([name |-> <<f>>, book |-> ReadExcel(d[f]), title |-> map[f]])

\* get_multiple_sheets_df from the outcomes of its loop bodies
BatchOf(rs) ==
    IF \E k \in 1..Len(rs) : rs[k].out = "raised" THEN [out |-> "raised", df |-> <<>>]
    ELSE IF rs = <<>> THEN [out |-> "raised", df |-> <<>>]
    ELSE [out |-> "df", df |-> Concat([k \in 1..Len(rs) |-> rs[k].df])]

\* the files whose loop body was entered
ReadUpTo(files, rs) ==
    { files[k] : k \in { j \in 1..Len(files) : \A m \in 1..(j - 1) : rs[m].out # "raised" } }

PipeStopped == {"idle", "done", "raised", "killed"}

\* what the call before left, when it returned a table
Previous == IF p_pc = "done" THEN [cap |-> p_cap, disk |-> disk, df |-> p_out.df] ELSE None

\* pages of the html directory in the pipeline runs
PipePages ==
    LET E(t, u) == [strong |-> TRUE, title |-> t, sheet |-> TRUE, href |-> u]
    IN  { <<E(<<"10.09.2020", ":", " Example Vote">>, <<"a", "f1.xlsx">>)>>,
          <<E(<<" ", "10.09.2020", ":", " Other Vote">>, <<"a", "f2.xls">>)>>,
          <<E(<<"10.09.2020", ":", " Other Vote">>, <<"b", "f1.xlsx">>),
            [strong |-> TRUE, title |-> <<"10.09.2020", ":", " Example Vote">>,
             sheet |-> FALSE, href |-> <<>>]>>,
          <<[strong |-> TRUE, title |-> <<"10.09.2020", ":", " Example Vote">>,
             sheet |-> TRUE, href |-> <<>>]>> }

\* get_multiple_sheets(html_path, sheet_path, nmax=cap) is called: the
\* harvest returns the title -> uri map
PipeHarvest(cap) ==
    /\ p_pc \in PipeStopped
    /\ collect_sheet_uris(p_pages).out = "returned"
    /\ uris' = collect_sheet_uris(p_pages).uris
    /\ pc' = "idle"
    /\ p_pc' = "download"
    /\ p_cap' = cap
    /\ p_out' = [out |-> "running", df |-> <<>>]
    /\ p_read' = {}
    /\ p_prev' = Previous
    /\ UNCHANGED <<disk, i, nmax, file_title_maps, resp, result, disk0, reqs, seen,
                   failed, created, pending, interrupted, slept>>
    /\ UNCHANGED p_pages
    /\ UNCHANGED <<apivars, votevars, sheetvars, titlevars, squishvars, batchvars, harvestvars, partyvars, dryvars>>

\* before the first call: sheet_path holds a file that an earlier run
\* downloaded from a listing page that is no longer under html_path
EarlierRunFile ==
    /\ p_pc = "idle"
    /\ disk = <<>>
    /\ disk' = WriteClose(disk, "f0.xlsx", Upstream(<<"c", "f0.xlsx">>))
    /\ UNCHANGED <<uris, pc, i, nmax, file_title_maps, resp, result, disk0, reqs, seen,
                   failed, created, pending, interrupted, slept>>
    /\ UNCHANGED pipevars
    /\ UNCHANGED <<apivars, votevars, sheetvars, titlevars, squishvars, batchvars, harvestvars, partyvars, dryvars>>

\* get_multiple_sheets is called and the harvest raises
PipeHarvestRaise(cap) ==
    /\ p_pc \in PipeStopped
    /\ collect_sheet_uris(p_pages).out = "raised"
    /\ p_pc' = "raised"
    /\ p_cap' = cap
    /\ p_out' = [out |-> "raised", df |-> <<>>]
    /\ p_read' = {}
    /\ p_prev' = Previous
    /\ UNCHANGED p_pages
    /\ UNCHANGED <<dlvars, apivars, votevars, sheetvars, titlevars, squishvars, batchvars, harvestvars, partyvars, dryvars>>

\* download_multiple_sheets(sheet_uris, sheet_path=sheet_path, nmax=nmax)
PipeDownload ==
    /\ p_pc = "download"
    /\ pc = "idle"
    /\ StartRun(p_cap)

\* a step of the download
PipeDownloadStep ==
    /\ p_pc = "download"
    /\ \/ LoopExhausted
       \/ LoopBreak
       \/ LoopSkip
       \/ LoopDownload
       \/ Open
       \/ GetOk
       \/ GetRaise
       \/ Write
       \/ Sleep
       \/ Kill

\* the download raised, or the process was terminated: nothing catches it
PipeDownloadStopped ==
    /\ p_pc = "download"
    /\ pc \in {"raised", "killed"}
    /\ p_pc' = pc
    /\ p_out' = [out |-> "raised", df |-> <<>>]
    /\ UNCHANGED <<p_pages, p_cap, p_read, p_prev>>
    /\ UNCHANGED <<dlvars, apivars, votevars, sheetvars, titlevars, squishvars, batchvars, harvestvars, partyvars, dryvars>>

\* sheet_files = get_file_paths(...); df = get_multiple_sheets_df(sheet_files,
\* file_title_maps=file_title_maps); return df
PipeParse ==
    /\ p_pc = "download"
    /\ pc = "returned"
    /\ LET files == ListDir(disk)
           rs    == [k \in 1..Len(files) |-> ParseListed(files[k], disk, result[1])]
       IN  /\ p_out' = BatchOf(rs)
           /\ p_read' = ReadUpTo(files, rs)
           /\ p_pc' = IF BatchOf(rs).out = "df" THEN "done" ELSE "raised"
    /\ UNCHANGED <<p_pages, p_cap, p_prev>>
    /\ UNCHANGED <<dlvars, apivars, votevars, sheetvars, titlevars, squishvars, batchvars, harvestvars, partyvars, dryvars>>

InitPipe ==
    /\ uris = <<>>
    /\ IdleDownloader
    /\ IdleApi
    /\ IdleVotes
    /\ IdleSheet
    /\ IdleDry
    /\ IdleParty
    /\ IdleTitle
    /\ IdleSquish
    /\ IdleBatch
    /\ IdleHarvest
    /\ p_pages \in [1..2 -> PipePages]
    /\ p_pc = "idle"
    /\ p_cap = None
    /\ p_out = [out |-> "todo", df |-> <<>>]
    /\ p_read = {}
    /\ p_prev = None

NextPipe ==
    \/ \E cap \in Caps : PipeHarvest(cap)
    \/ \E cap \in Caps : PipeHarvestRaise(cap)
    \/ PipeDownload
    \/ PipeDownloadStep
    \/ PipeDownloadStopped
    \/ PipeParse
    \/ EarlierRunFile

SpecPipe == InitPipe /\ [][NextPipe]_vars

\* ------------------------------------------------------------------------
\* Sheet Parser: disambiguate_party
\* ------------------------------------------------------------------------
\* Labels are written in ASCII (UE for the umlaut, a blank for the accent of
\* the first key).
\* Mutant of PARTY_MAP: a value that is itself a key.
PARTY_MAP_CHAINED ==
    [x \in {"BUENDNIS 90/DIE GRUENEN", "DIE LINKE", "fraktionslos", "fraktionslose"} |->
        IF x = "BUENDNIS 90/DIE GRUENEN" THEN "BUE90/GR"
        ELSE IF x = "DIE LINKE" THEN "DIE LINKE."
        ELSE IF x = "fraktionslos" THEN "Fraktionslos"
        ELSE "fraktionslos"]

PARTY_MAP ==
    [x \in {"BUENDNIS 90/DIE GRUENEN", "DIE LINKE", "fraktionslos", "fraktionslose"} |->
        IF x = "BUENDNIS 90/DIE GRUENEN" THEN "BUE90/GR"
        ELSE IF x = "DIE LINKE" THEN "DIE LINKE."
        ELSE "Fraktionslos"]

\* labels found in the Fraktion/Gruppe column: the keys and the values of
\* the map, and labels it does not name
PartyLabels ==
    {"BUENDNIS 90/DIE GRUENEN", "DIE LINKE", "fraktionslos", "fraktionslose",
     "BUE90/GR", "DIE LINKE.", "Fraktionslos", "CDU/CSU", "SPD"}

\* lambda x: x if x not in party_map else party_map[x]
Canonical(x) == IF x \notin DOMAIN PARTY_MAP THEN x ELSE PARTY_MAP[x]

\* df[col] = df[col].apply(...)
disambiguate_party(col) == [k \in 1..Len(col) |-> Canonical(col[k])]

DisambiguateParty ==
    /\ party_n < 2
    /\ party_col' = disambiguate_party(party_col)
    /\ party_once' = IF party_n = 0 THEN disambiguate_party(party_col) ELSE party_once
    /\ party_n' = party_n + 1
    /\ UNCHANGED party_in
    /\ UNCHANGED <<dlvars, apivars, votevars, sheetvars, titlevars, squishvars, batchvars, harvestvars, pipevars, dryvars>>

InitParty ==
    /\ uris = <<>>
    /\ IdleDownloader
    /\ IdleApi
    /\ IdleVotes
    /\ IdleSheet
    /\ IdleDry
    /\ IdleTitle
    /\ IdleSquish
    /\ IdleBatch
    /\ IdleHarvest
    /\ IdlePipe
    /\ \E n \in 0..MaxPartyRows : party_in \in [1..n -> PartyLabels]
    /\ party_col = party_in
    /\ party_once = <<>>
    /\ party_n = 0

NextParty == DisambiguateParty

SpecParty == InitParty /\ [][NextParty]_vars

\* ------------------------------------------------------------------------
\* Claims
\* ------------------------------------------------------------------------

\* C1: a uri whose target file exists when the run reaches it gets no network
\* request and the file keeps the content it had then; no file that existed
\* when the run started is overwritten by the run.
C1_ExistingFilesUntouched ==
    /\ \A s \in seen :
          /\ s[1] \notin reqs
          /\ Target(s[1]) \in DOMAIN disk
          /\ disk[Target(s[1])] = s[2]
    /\ \A f \in DOMAIN disk0 : f \in DOMAIN disk /\ disk[f] = disk0[f]

\* C1 witness: a finished run that skipped an existing file and fetched another.
C1_Witness ==
    /\ pc = "returned"
    /\ seen # {}
    /\ reqs # {}
    /\ disk0 # <<>>
    /\ disk # disk0

\* C2 (as claimed): a uri whose fetch failed has no file in the target
\* directory, and a later uncapped run that returns has attempted it again.
C2_FailedUriLeftUnfetched ==
    /\ \A k \in failed : Target(k) \notin DOMAIN disk
    /\ (pc = "returned" /\ nmax = None) => pending \cap { Item(k).uri : k \in Indexes } = {}

\* C3 (as claimed): a run in which a fetch raised still reaches every other
\* uri and returns its filename -> title map.
C3_FailureDoesNotAbortBatch ==
    (pc \in Stopped /\ pc # "killed" /\ failed # {}) =>
        /\ result = <<FileTitleMaps(uris)>>
        /\ nmax = None => \A k \in Indexes : k \in reqs \/ k \in { s[1] : s \in seen }

\* C4 (as claimed): with the uncapped downloader run again and again and
\* fetches answering when attempted, eventually every harvested uri has a
\* file holding content fetched for that file name.
C4_EventuallyAllFetched ==
    <>(\A k \in Indexes :
          /\ Target(k) \in DOMAIN disk
          /\ disk[Target(k)] \in { Upstream(Item(j).uri) : j \in { n \in Indexes : Target(n) = Target(k) } })

\* C5 (as claimed): a run resumed after a kill and brought to its end leaves
\* the directory an uninterrupted run from the same start would leave.
C5_KillThenRerunEqualsUninterrupted ==
    (pc = "returned" /\ interrupted # None) =>
        disk = CompleteRun(interrupted[1], interrupted[2])

\* C6: a run started on a directory that holds a file for every harvested uri
\* issues no network request and leaves the directory as it was.
C6_RerunOnCompleteDirectoryIsNoOp ==
    (\A k \in Indexes : Target(k) \in DOMAIN disk0) => (reqs = {} /\ disk = disk0)

\* C6 witness: such a run over at least two uris has returned.
C6_Witness ==
    /\ pc = "returned"
    /\ nmax = None
    /\ Len(uris) >= 2
    /\ \A k \in Indexes : Target(k) \in DOMAIN disk0
    /\ Cardinality({ s[1] : s \in seen }) = Len(uris)

\* C7 (as claimed): a run with the cap nmax = n fetches at most n new files.
C7_CapBoundsNewDownloads ==
    nmax # None => created <= nmax[1]

\* C8: the work list the missing-polls helper returns holds exactly the known
\* poll ids of the legislature that have no raw votes artifact on disk, each
\* once: it is empty when every known id is on disk, and it is the one new id
\* when that id alone is not on disk.
C8_MissingIsSetDifference ==
    apipc = "listed" =>
        LET knownIds == { known[leg][k] : k \in 1..Len(known[leg]) }
            listed   == { missing[k] : k \in 1..Len(missing) }
        IN  /\ listed = knownIds \ StoredVoteIds
            /\ Len(missing) = Cardinality(listed)
            /\ knownIds \subseteq StoredVoteIds => missing = <<>>
            /\ \A p \in PollIds : knownIds \ StoredVoteIds = {p} => missing = <<p>>

\* C8 witness: every poll of the legislature but the last one added is on
\* disk, and the helper has returned that one id.
C8_Witness ==
    /\ apipc = "listed"
    /\ Len(known[leg]) >= 2
    /\ missing = <<known[leg][Len(known[leg])]>>
    /\ \A k \in 1..(Len(known[leg]) - 1) : known[leg][k] \in StoredVoteIds

\* C9: the parsed votes of a poll hold one row per mandate_id of the raw JSON,
\* the row of the first entry with that mandate_id in arrival order, and no
\* other row.
C9_FirstOccurrenceKept ==
    votes_done =>
        LET entries == raw_poll.votes
        IN  /\ \A a, b \in 1..Len(votes_df) :
                  (votes_df[a].mandate_id = votes_df[b].mandate_id
                      /\ votes_df[a].poll_id = votes_df[b].poll_id) => a = b
            /\ \A k \in 1..Len(entries) :
                  (\A j \in 1..(k - 1) : entries[j].mandate_id # entries[k].mandate_id) =>
                      \E a \in 1..Len(votes_df) :
                          votes_df[a] = [mandate_id |-> entries[k].mandate_id,
                                         poll_id |-> raw_poll.poll_id,
                                         vote |-> entries[k].vote]
            /\ \A a \in 1..Len(votes_df) :
                  /\ votes_df[a].poll_id = raw_poll.poll_id
                  /\ \E k \in 1..Len(entries) : entries[k].mandate_id = votes_df[a].mandate_id

\* C9 witness: a yes followed by a no of the same mandate has been parsed to
\* the single row yes.
C9_Witness ==
    /\ votes_done
    /\ Len(raw_poll.votes) = 2
    /\ raw_poll.votes[1].mandate_id = raw_poll.votes[2].mandate_id
    /\ raw_poll.votes[1].vote = "yes"
    /\ raw_poll.votes[2].vote = "no"
    /\ Len(votes_df) = 1
    /\ votes_df[1].vote = "yes"

FirstAt(s, sep) ==
    IF \E k \in 1..Len(s) : s[k] = sep
    THEN CHOOSE k \in 1..Len(s) : s[k] = sep /\ \A j \in 1..(k-1) : s[j] # sep
    ELSE Len(s) + 1

Before(s, sep) == SubSeq(s, 1, FirstAt(s, sep) - 1)

After(s, sep) == SubSeq(s, FirstAt(s, sep) + 1, Len(s))

C13_MeltKeepsRowCount ==
    (sq_out # None /\ sq_out.out = "df") =>
        /\ Len(sq_out.df) = Len(sq_df.rows)
        /\ \A k \in 1..Len(sq_df.rows) :
              /\ sq_out.df[k].vote \in VoteColSet
              /\ sq_df.rows[k][sq_out.df[k].vote] = 1
              /\ sq_out.df[k].issue = Issue(sq_df.date, sq_df.title)
              /\ DOMAIN sq_out.df[k] \cap VoteColSet = {}

\* C14: the five one-hot columns rebuilt from the vote column of the melted
\* table are the original wide table, row for row.
C14_MeltRoundTrip ==
    (sq_out # None /\ sq_out.out = "df") => GetDummies(sq_out.df) = sq_df.rows

BatchDone == b_out.out \in {"df", "raised"}

\* the rows the valid sheets of the batch give, in file order
RowsOfValid ==
    Concat([k \in 1..Len(b_files) |->
               IF ParseOne(b_files[k]).out = "df" THEN ParseOne(b_files[k]).df ELSE <<>>])

\* C11: a sheet file with more than one page, or with a row whose outcome
\* flags do not sum to 1, does not abort the batch parse: it returns the rows
\* of every other valid sheet.
C11_ViolationAbortsOneSheetOnly ==
    (/\ BatchDone
     /\ \E k \in 1..Len(b_files) :
           b_files[k].book # EmptyBytes /\ SheetDf(b_files[k].book).out = "raised"
     /\ \E k \in 1..Len(b_files) : ParseOne(b_files[k]).out = "df")
    => (b_out.out = "df" /\ b_out.df = RowsOfValid)

\* C12: a zero-byte sheet file among otherwise valid, dated sheets is
\* skipped: the batch parse does not raise, and returns the rows of the
\* other files and none for the zero-byte one.
C12_ZeroByteFileSkipped ==
    (/\ BatchDone
     /\ \E k \in 1..Len(b_files) : b_files[k].book = EmptyBytes
     /\ \E k \in 1..Len(b_files) : b_files[k].book # EmptyBytes
     /\ \A k \in 1..Len(b_files) :
           b_files[k].book # EmptyBytes => ParseOne(b_files[k]).out = "df")
    => (b_out.out = "df" /\ b_out.df = RowsOfValid)

\* C16: in the vote relation returned by the batch parse no member
\* (Bezeichnung) has two records for the same issue (date and title).
C16_MemberIssueUnique ==
    b_out.out = "df" =>
        \A j, k \in 1..Len(b_out.df) :
            (/\ b_out.df[j].Bezeichnung = b_out.df[k].Bezeichnung
             /\ b_out.df[j].issue = b_out.df[k].issue) => j = k

\* C19: the map returned by the downloader has exactly one entry per
\* harvested uri and maps each uri's final path segment to that uri's title,
\* whatever the cap and whichever files were downloaded.
C19_InverseMapOneEntryPerUri ==
    pc = "returned" =>
        /\ Cardinality(DOMAIN result[1]) = Len(uris)
        /\ \A k \in Indexes : result[1][Target(k)] = Item(k).title

\* an entry that lacks the bold title text or the href of its sheet anchor
Lacking(e) == ~e.strong \/ (e.sheet /\ e.href = <<>>)

\* C20: an entry lacking the bold title text or the anchor's href is an
\* error for that entry only: the harvester returns the map built from all
\* other entries of all scanned pages.
C20_LackingEntryLeavesPartialMap ==
    (/\ h_out # None
     /\ \E k \in 1..Len(Concat(h_pages)) : Lacking(Concat(h_pages)[k]))
    => /\ h_out.out = "returned"
       /\ h_out.uris = HarvestFrom(SelectSeq(Concat(h_pages), LAMBDA e : ~Lacking(e)), <<>>).uris

\* C17: once a unit (a sheet file) has gone through download and parse in
\* a call that returned, the next call does no work for it: no request, no
\* change of its file, and no parse of it.
C17_EveryStageIsNoOpOnRerun ==
    (p_prev # None /\ pc # "idle") =>
        \A u \in DOMAIN p_prev.disk :
            /\ \A k \in reqs : Target(k) # u
            /\ u \in DOMAIN disk /\ disk[u] = p_prev.disk[u]
            /\ u \notin p_read

\* C18: a call of the pipeline that follows a call which returned, with the
\* same pages, upstream files and cap, leaves every file as it was at every
\* moment, does not raise, and returns the same long table row for row.
C18_RerunReproducesArtifacts ==
    (p_prev # None /\ p_prev.cap = p_cap) =>
        /\ disk = p_prev.disk
        /\ p_pc # "raised"
        /\ p_pc = "done" => p_out = [out |-> "df", df |-> p_prev.df]

C18_Witness ==
    /\ p_prev # None
    /\ p_prev.cap = p_cap
    /\ p_cap = <<0>>
    /\ p_pc = "done"
    /\ Len(uris) = 2
    /\ Cardinality(DOMAIN disk) = 1
    /\ Len(p_out.df) >= 1

\* the document-list entries of the scanned pages, in scan order
Scanned == Concat(h_pages)

\* the entries that have a spreadsheet anchor
Anchored == { k \in 1..Len(Scanned) : Scanned[k].sheet }

\* a dict as the set of its items
Items(d) == { <<d[k].title, d[k].uri>> : k \in 1..Len(d) }

\* C21: the harvest result holds one uri per title, the one of the entry
\* scanned last under that title, and its size is the number of distinct
\* titles among the entries that have a spreadsheet anchor.
C21_OneUriPerTitleLastWins ==
    (h_out # None /\ h_out.out = "returned") =>
        /\ \A j, k \in 1..Len(h_out.uris) :
              h_out.uris[j].title = h_out.uris[k].title => j = k
        /\ Len(h_out.uris) = Cardinality({ Strip(Scanned[k].title) : k \in Anchored })
        /\ \A k \in Anchored :
              (\A j \in Anchored : Strip(Scanned[j].title) = Strip(Scanned[k].title) => j <= k)
              => <<Strip(Scanned[k].title), Scanned[k].href>> \in Items(h_out.uris)

\* one title on both pages under two uris: the second page's uri is kept
C21_Witness ==
    /\ h_out # None
    /\ h_out.out = "returned"
    /\ Len(h_pages[1]) = 1 /\ Len(h_pages[2]) = 1
    /\ h_pages[1][1].sheet /\ h_pages[2][1].sheet
    /\ h_pages[1][1].title = h_pages[2][1].title
    /\ h_pages[1][1].href = <<"a", "f1.xlsx">>
    /\ h_out.uris = <<[title |-> <<"10.09.2020", ":", " Example Vote">>, uri |-> <<"a", "f2.xls">>]>>

\* C22: when every entry that has a spreadsheet anchor also has its title
\* and href, the harvester returns, with an item for exactly the anchored
\* entries: entries without such an anchor are skipped and a page without a
\* match raises nothing.
C22_ExactlyAnchoredEntries ==
    (/\ h_out # None
     /\ \A k \in Anchored : Scanned[k].strong /\ Scanned[k].href # <<>>)
    => /\ h_out.out = "returned"
       /\ { it[1] : it \in Items(h_out.uris) } = { Strip(Scanned[k].title) : k \in Anchored }
       /\ Items(h_out.uris) \subseteq { <<Strip(Scanned[k].title), Scanned[k].href>> : k \in Anchored }

\* C30: scanning the same pages in the other order returns the same map.
C30_ScanOrderIrrelevant ==
    h_out # None =>
        LET other == collect_sheet_uris(<<h_pages[2], h_pages[1]>>)
        IN  /\ other.out = h_out.out
            /\ Items(other.uris) = Items(h_out.uris)

\* C23: party canonicalization applied twice gives what it gives applied
\* once, and a label that is no key of the map is left as it is.
C23_PartyMapIdempotent ==
    /\ party_n = 2 => party_col = party_once
    /\ party_n >= 1 =>
          \A k \in 1..Len(party_in) :
              party_in[k] \notin {"BUENDNIS 90/DIE GRUENEN", "DIE LINKE", "fraktionslos", "fraktionslose"}
              => party_once[k] = party_in[k]

C23_Witness ==
    /\ party_n = 2
    /\ party_in = <<"fraktionslose", "SPD">>
    /\ party_col = <<"Fraktionslos", "SPD">>

\* C24: a dry-run operation of the API Paginator (a poll list, mandate
\* list or per-poll votes call with dry set, or a step of the remaining-votes
\* batch started with dry set) makes no network call and leaves the Artifact
\* Store as it is.
C24_DryRunLeavesStore ==
    [][(\/ dry_last' # dry_last
        \/ (RequestVoteDry /\ queue' # queue))
       => (store' = store /\ calls' = calls)]_vars

\* a dry batch that has gone through a missing poll, and a dry single call,
\* with artifacts on disk
C24_Witness ==
    /\ dry
    /\ apipc = "fetching"
    /\ missing # <<>>
    /\ queue = <<>>
    /\ calls = 0
    /\ dry_last # None
    /\ store # {}

\* C25: within one run, when a fetch is about to start and a request was
\* issued before it in that run, time.sleep has run since that request.
C25_SleepBetweenRequests ==
    (pc \in {"open", "get"} /\ reqs # {}) => slept

\* a second fetch of a run, after the sleep that followed the first
C25_Witness ==
    /\ pc = "get"
    /\ reqs = {0}
    /\ i = 1
    /\ slept

\* C26: a valid sheet whose title and file name yield no date is still
\* parsed by the batch parse: it does not raise, and the sheet's rows are
\* returned with the date unknown and the full title as title.
C26_UndatedSheetStillParsed ==
    (/\ BatchDone
     /\ \A k \in 1..Len(b_files) : SheetDfTitled(b_files[k]).out = "df"
     /\ \E k \in 1..Len(b_files) : SheetDfTitled(b_files[k]).df.date = NoDate)
    => /\ b_out.out = "df"
       /\ \A k \in 1..Len(b_files) :
             SheetDfTitled(b_files[k]).df.date = NoDate =>
                 \E r \in 1..Len(b_out.df) :
                     /\ b_out.df[r].date = NoDate
                     /\ b_out.df[r].title = b_files[k].title

\* C27: every sheet file the parser reads in a pipeline run has an entry
\* in the file name -> title map that the downloader of that run returned.
C27_EveryReadFileHasTitle ==
    (p_pc \in {"done", "raised"} /\ pc = "returned") =>
        \A f \in p_read : f \in DOMAIN result[1]

\* C28: for every entry file name -> title of the returned map whose file
\* is in the target directory with content, that content is what was fetched
\* from the uri harvested under that title.
C28_FileMatchesMappedTitle ==
    pc = "returned" =>
        \A f \in DOMAIN result[1] :
            (f \in DOMAIN disk /\ disk[f] # EmptyBytes) =>
                \E k \in Indexes :
                    /\ Item(k).title = result[1][f]
                    /\ disk[f] = Upstream(Item(k).uri)

\* C29: a run with a cap of at least 1 in which no fetch fails, started
\* on a directory of completely fetched files while some target file is
\* missing, downloads at least one new file.
C29_CappedRunMakesProgress ==
    (/\ pc = "returned"
     /\ nmax # None
     /\ nmax[1] >= 1
     /\ failed = {}
     /\ \A f \in DOMAIN disk0 : disk0[f] # EmptyBytes
     /\ \E k \in Indexes : Target(k) \notin DOMAIN disk0)
    => created >= 1

Spec == Init /\ [][Next]_vars

====
